---------------------------- MODULE Spec2Model ----------------------------
(***************************************************************************)
(* A model of the Scorched Earth artillery game (scorched-earth/src/App.tsx): *)
(* the React component's state, its event handlers, its timers and its     *)
(* animation-frame callbacks.                                              *)
(*                                                                         *)
(* Numbers.  A JavaScript number is modelled in fixed point: an integer    *)
(* count of thousandths (Milli).  Pixels, degrees, seconds and the values  *)
(* of Math.cos / Math.sin are all held in thousandths, rounded down.       *)
(* Math.cos is computed by Bhaskara's rational approximation (error below  *)
(* 0.002); the control points' x positions are exact rationals.            *)
(***************************************************************************)
EXTENDS Integers, Sequences, FiniteSets, TLC

(***************************************************************************)
(* Program constants (App.tsx lines 30-43, 57).                            *)
(***************************************************************************)
STATION_WIDTH == 30
STATION_HEIGHT == 15
GRAVITY == 100
EXPLOSION_RADIUS == 20
CANON_LENGTH == 30
TERRAIN_MIN_Y == 300
TERRAIN_MAX_Y == 500
canvasHeight == 600
maxFrames == 10
stationMargin == 10

(***************************************************************************)
(* Fixed point.                                                            *)
(***************************************************************************)
Milli == 10 * 10 * 10
\* DT = 0.05 s, in thousandths of a second.
DT == Milli \div 20

Abs(a) == IF a < 0 THEN 0 - a ELSE a
Min2(a, b) == IF a <= b THEN a ELSE b
Max2(a, b) == IF a >= b THEN a ELSE b
\* floor(a * b / c) for c > 0, split so that no intermediate product leaves
\* the 32-bit range.
MulDiv(a, b, c) == (a \div c) * b + ((a % c) * b) \div c
\* The product of two fixed-point numbers.
Mul(a, b) == MulDiv(a, b, Milli)
\* Math.floor and Math.ceil of a fixed-point number, as whole numbers.
Floor(a) == a \div Milli
Ceil(a) == 0 - ((0 - a) \div Milli)

\* Math.cos(t * Math.PI) for t given in thousandths: reduced to [0, 1] by
\* the symmetries of the cosine, then Bhaskara's formula
\* cos(pi u) ~ (1 - 4u^2) / (1 + u^2) on |u| <= 1/2.
CosHalf(u) == (Milli * (Milli * Milli - 4 * u * u)) \div (Milli * Milli + u * u)
CosPi(t) ==
  LET a == Abs(t) % (2 * Milli)
      b == IF a > Milli THEN 2 * Milli - a ELSE a
  IN  IF 2 * b <= Milli THEN CosHalf(b) ELSE 0 - CosHalf(Milli - b)
\* Math.cos and Math.sin of (deg * Math.PI) / 180, deg in thousandths of a degree.
CosDeg(deg) == CosPi(deg \div 180)
SinDeg(deg) == CosPi(deg \div 180 - Milli \div 2)

(***************************************************************************)
(* parseFloat on the text of an input field.  A text is a sequence of      *)
(* one-character strings; the result is NaN or a fixed-point number.  The  *)
(* parser reads an optional sign, the digits, and a fraction part, and     *)
(* stops at the first character that cannot continue the number.           *)
(***************************************************************************)
DigitChars == <<"0", "1", "2", "3", "4", "5", "6", "7", "8", "9">>
IsDigit(c) == \E d \in 1..10 : DigitChars[d] = c
DigitVal(c) == (CHOOSE d \in 1..10 : DigitChars[d] = c) - 1

RECURSIVE ParseDigits(_, _, _)
\* The value of the digits of str from position i on, continuing acc; with
\* the position of the first character after them.
ParseDigits(str, i, acc) ==
  IF i <= Len(str) /\ IsDigit(str[i])
    THEN ParseDigits(str, i + 1, [v |-> acc.v * 10 + DigitVal(str[i]), n |-> acc.n + 1])
    ELSE [v |-> acc.v, n |-> acc.n, next |-> i]

RECURSIVE ParseFraction(_, _, _, _)
\* The fraction digits from position i on, in thousandths (further digits
\* are cut), with the count of digits read.
ParseFraction(str, i, scale, acc) ==
  IF i <= Len(str) /\ IsDigit(str[i])
    THEN ParseFraction(str, i + 1, scale \div 10,
                       [v |-> acc.v + DigitVal(str[i]) * (scale \div 10), n |-> acc.n + 1])
    ELSE acc

NaN == [nan |-> TRUE, v |-> 0]
Num(v) == [nan |-> FALSE, v |-> v]

parseFloat(str) ==
  LET neg == Len(str) >= 1 /\ str[1] = "-"
      start == IF Len(str) >= 1 /\ str[1] \in {"-", "+"} THEN 2 ELSE 1
      ip == ParseDigits(str, start, [v |-> 0, n |-> 0])
      fp == IF ip.next <= Len(str) /\ str[ip.next] = "."
              THEN ParseFraction(str, ip.next + 1, Milli, [v |-> 0, n |-> 0])
              ELSE [v |-> 0, n |-> 0]
      mag == ip.v * Milli + fp.v
  IN  IF ip.n + fp.n = 0 THEN NaN ELSE Num(IF neg THEN 0 - mag ELSE mag)

(***************************************************************************)
(* getRandomInt(min, max): the set of values                               *)
(* Math.floor(Math.random() * (max - min + 1)) + min can take, Math.random *)
(* ranging over [0, 1).                                                    *)
(***************************************************************************)
getRandomInt(min, max) == IF max >= min THEN min..max ELSE (max + 1)..min

(***************************************************************************)
(* Arrays.  A JavaScript array is its length and the entries that have     *)
(* been assigned: elems is a function on a subset of 0..length-1, and an   *)
(* index outside its domain reads as undefined.                            *)
(***************************************************************************)
NewArray(n) == [length |-> n, elems |-> <<>>]
IsDefinedAt(arr, x) == x \in DOMAIN arr.elems
\* arr with every index x of the function vals assigned vals[x].
AssignAll(arr, vals) ==
  [arr EXCEPT !.elems =
     [x \in (DOMAIN arr.elems) \cup (DOMAIN vals) |->
        IF x \in DOMAIN vals THEN vals[x] ELSE arr.elems[x]]]

(***************************************************************************)
(* generateTerrain (App.tsx 206-243).  The outcome of the random choices   *)
(* is ys, the control points' elevations in order (numPoints = Len(ys)).   *)
(* A control point is its elevation y and its x as the exact fraction      *)
(* num / den.                                                              *)
(***************************************************************************)
\* The elevations one control point can be given (lines 213-221).
ControlPointYs ==
  getRandomInt(50, TERRAIN_MIN_Y - 1)
    \cup getRandomInt(TERRAIN_MAX_Y + 1, canvasHeight)
    \cup getRandomInt(TERRAIN_MIN_Y, TERRAIN_MAX_Y)

\* Lines 207-224: numPoints points segmentLength = width / (numPoints - 1)
\* apart, the last one's x then set to width.
controlPoints(width, ys) ==
  LET numPoints == Len(ys)
  IN  [i \in 1..numPoints |->
         IF i = numPoints
           THEN [num |-> width, den |-> 1, y |-> ys[i]]
           ELSE [num |-> (i - 1) * width, den |-> numPoints - 1, y |-> ys[i]]]

\* A faulty variant of interpolate, against which C26 is tested: t2 is
\* taken as 1 - cos(t * pi), without the halving of line 233.
interpolateOvershooting(p0, p1, x) ==
  LET t == (((x * p0.den - p0.num) * p1.den) * Milli)
              \div (p1.num * p0.den - p0.num * p1.den)
      c == CosPi(t)
  IN  p0.y * c + p1.y * (Milli - c)

\* Lines 232-234: the cosine interpolation between p0 and p1 at integer x.
interpolate(p0, p1, x) ==
  LET t == (((x * p0.den - p0.num) * p1.den) * Milli)
              \div (p1.num * p0.den - p0.num * p1.den)
      c == CosPi(t)
  IN  (p0.y * (Milli + c) + p1.y * (Milli - c)) \div 2

RECURSIVE fillSegments(_, _, _, _)
\* Lines 226-236: the loop over the segments, from segment i on.
fillSegments(arr, cps, i, width) ==
  IF i > Len(cps) - 1 THEN arr
  ELSE LET p0 == cps[i]
           p1 == cps[i + 1]
           startX == p0.num \div p0.den
           endX == p1.num \div p1.den
           xs == {x \in startX..(endX - 1) : x < width}
       IN  fillSegments(AssignAll(arr, [x \in xs |-> interpolate(p0, p1, x)]),
                        cps, i + 1, width)

\* Lines 237-241: every index still undefined is assigned
\* terrainArr[width - 1]; assigning undefined leaves the index undefined.
backFill(arr, width) ==
  IF IsDefinedAt(arr, width - 1)
    THEN AssignAll(arr, [x \in {x \in 0..(width - 1) : ~IsDefinedAt(arr, x)} |->
                           arr.elems[width - 1]])
    ELSE arr

generateTerrain(width, ys) ==
  backFill(fillSegments(NewArray(width), controlPoints(width, ys), 1, width), width)

(***************************************************************************)
(* generateTerrain of the file's second component (App.tsx 823-857):       *)
(* numHills + 1 control points segmentLength = width / (numHills + 1)      *)
(* apart, and no point moved to width.                                     *)
(***************************************************************************)
ControlPointYs2 == getRandomInt(TERRAIN_MIN_Y, TERRAIN_MAX_Y)

controlPoints2(width, ys) ==
  LET numHills == Len(ys) - 1
  IN  [i \in 1..(numHills + 1) |->
         [num |-> (i - 1) * width, den |-> numHills + 1, y |-> ys[i]]]

generateTerrain2(width, ys) ==
  backFill(fillSegments(NewArray(width), controlPoints2(width, ys), 1, width), width)

\* Every index 0..length-1 of the array holds a number.
IsComplete(arr) == \A x \in 0..(arr.length - 1) : IsDefinedAt(arr, x)

(***************************************************************************)
(* Bounds of the model: the window's width, the generated terrains and     *)
(* station positions that are explored, the texts a player types, and how  *)
(* many resets and shots a behaviour holds.                                *)
(***************************************************************************)
InnerWidth == 500
\* generateTerrain on its own is explored for the widths 1..MaxWidth and up
\* to MaxPoints control points.
MaxWidth == 6
MaxPoints == 3
MaxResets == 1
\* Fire and New Game clicks explored in one run, taken together.
MaxClicks == 2
MaxEdits == 1

\* Control-point elevations explored (each within generateTerrain's ranges).
TerrainSamples == {<<350, 450, 600>>}
ElevationSamples == {50, 300, 500, 600}
LeftXSamples == {60}
RightXSamples == {410}
CoinTossTimes == {2000}
\* Texts typed into the angle and the power field.
AngleTexts == {<<"4", "5">>, <<"0">>, <<"9", "0">>, <<"-", "1">>, <<"9", "1">>, <<>>}
PowerTexts == {<<"2", "5", "0">>, <<"0">>, <<"5", "0", "0">>, <<"-", "1">>,
               <<"6", "0", "0">>, <<>>, <<"2", "5", "2">>, <<"2", "6", "0">>}

(***************************************************************************)
(* The component's state (App.tsx 56-94), its pending timers and its       *)
(* pending animation-frame callbacks.                                      *)
(***************************************************************************)
VARIABLES
  canvasWidth,     \* useState(window.innerWidth)
  terrain,         \* the heightmap: an array of fixed-point elevations
  leftStation,     \* player 0's emplacement [x, y, width, height], fixed point
  rightStation,    \* player 1's emplacement
  currentPlayer,   \* 0: left, 1: right
  inputStep,       \* "angle" or "power"
  playerSettings,  \* per player (index 0, 1) the texts [angle, power]
  message,         \* the status line
  firing,          \* hides the inputs while a missile is in flight
  gameOver,
  tossing,         \* hides the inputs during the coin toss
  timers,          \* pending setTimeout callbacks, in the order they were set
  rafQueue,        \* pending requestAnimationFrame callbacks, in order
  round,           \* history: how many times resetGame has run
  shots,           \* history: the accepted power submissions, each [player,
                   \* round, unresolved: the flights pending when it was accepted]
  edits,           \* history: how many times a field was edited
  resolved         \* history: the flight outcomes produced by the last step

vars == <<canvasWidth, terrain, leftStation, rightStation, currentPlayer, inputStep,
          playerSettings, message, firing, gameOver, tossing, timers, rafQueue,
          round, shots, edits, resolved>>

defaultSettings ==
  [p \in {0, 1} |-> [angle |-> <<"4", "5">>, power |-> <<"2", "5", "0">>]]

Station(x, y) ==
  [x |-> x, y |-> y, width |-> STATION_WIDTH * Milli, height |-> STATION_HEIGHT * Milli]

\* What a handler's closure holds of the render it was created in.
Closure ==
  [terrain |-> terrain, leftStation |-> leftStation, rightStation |-> rightStation,
   currentPlayer |-> currentPlayer, round |-> round]

\* The inputs are rendered (line 661).
InputsVisible == ~firing /\ ~gameOver /\ ~tossing

(***************************************************************************)
(* Station placement (lines 140-153 and 514-528).                          *)
(***************************************************************************)
\* Math.max(...arr.slice(from, to)) for 0 <= from.
MaxOfSlice(arr, from, to) ==
  LET xs == from..(Min2(to, arr.length) - 1)
  IN  CHOOSE m \in {arr.elems[x] : x \in xs} : \A x \in xs : arr.elems[x] <= m

\* A faulty variant of stationY, against which C8 is tested: no margin.
stationYNoMargin(newTerrain, x) ==
  MaxOfSlice(newTerrain, x, x + STATION_WIDTH) - STATION_HEIGHT * Milli

stationY(newTerrain, x) ==
  MaxOfSlice(newTerrain, x, x + STATION_WIDTH)
    - STATION_HEIGHT * Milli - stationMargin * Milli

leftXs(width) == getRandomInt(50, (width \div 2) - 150)
rightXs(width) == getRandomInt((width \div 2) + 150, width - 50 - STATION_WIDTH)

(***************************************************************************)
(* startNewGame (106-189) and resetGame (483-560) assign the same state,   *)
(* but for the message; both start a coin toss: an interval that spins the *)
(* message and a timeout that ends the toss.                               *)
(***************************************************************************)
tossTimer(firstPlayer, coinTossTime) ==
  [kind |-> "toss", timeout |-> coinTossTime, firstPlayer |-> firstPlayer]

\* generateTerrain's results at the window's width, tabulated.
GeneratedTerrains == [ys \in TerrainSamples |-> generateTerrain(InnerWidth, ys)]

newTerrainFor(width, ys) ==
  IF width = InnerWidth /\ ys \in TerrainSamples
    THEN GeneratedTerrains[ys] ELSE generateTerrain(width, ys)

newGame(firstPlayer, coinTossTime, ys, leftX, rightX) ==
  LET newTerrain == newTerrainFor(canvasWidth, ys)
  IN  /\ gameOver' = FALSE
      /\ firing' = FALSE
      /\ currentPlayer' = firstPlayer
      /\ inputStep' = "angle"
      /\ playerSettings' = defaultSettings
      /\ tossing' = TRUE
      /\ timers' = Append(timers, tossTimer(firstPlayer, coinTossTime))
      /\ terrain' = newTerrain
      /\ leftStation' = Station(leftX * Milli, stationY(newTerrain, leftX))
      /\ rightStation' = Station(rightX * Milli, stationY(newTerrain, rightX))

\* The random choices of a new game, within the explored samples.
NewGameChoices(width) ==
  [firstPlayer : getRandomInt(0, 1),
   coinTossTime : getRandomInt(2000, 5000) \cap CoinTossTimes,
   ys : {ys \in TerrainSamples :
           /\ Len(ys) \in getRandomInt(2, 21)
           /\ \A i \in 1..Len(ys) : ys[i] \in ControlPointYs},
   leftX : leftXs(width) \cap LeftXSamples,
   rightX : rightXs(width) \cap RightXSamples]

\* The state once the component is mounted: the useState values (56-94),
\* then startNewGame run by the mount effect (192-194).
Init ==
  /\ canvasWidth = InnerWidth
  /\ \E c \in NewGameChoices(canvasWidth) :
       LET newTerrain == newTerrainFor(canvasWidth, c.ys)
       IN  /\ terrain = newTerrain
           /\ leftStation = Station(c.leftX * Milli, stationY(newTerrain, c.leftX))
           /\ rightStation = Station(c.rightX * Milli, stationY(newTerrain, c.rightX))
           /\ currentPlayer = c.firstPlayer
           /\ timers = <<tossTimer(c.firstPlayer, c.coinTossTime)>>
  /\ inputStep = "angle"
  /\ playerSettings = defaultSettings
  /\ message = ""
  /\ firing = FALSE
  /\ gameOver = FALSE
  /\ tossing = TRUE
  /\ rafQueue = <<>>
  /\ round = 0
  /\ shots = <<>>
  /\ edits = 0
  /\ resolved = <<>>

resetGame ==
  /\ round < MaxResets
  /\ round + Len(shots) < MaxClicks
  /\ \E c \in NewGameChoices(canvasWidth) :
       newGame(c.firstPlayer, c.coinTossTime, c.ys, c.leftX, c.rightX)
  /\ message' = "Coin toss"
  /\ round' = round + 1
  /\ resolved' = <<>>
  /\ UNCHANGED <<canvasWidth, rafQueue, shots, edits>>

(***************************************************************************)
(* Timers.  A pending timer may run once no timer set before it with an    *)
(* equal or shorter timeout is still pending (the HTML timer ordering).    *)
(***************************************************************************)
MayRun(j) ==
  /\ j \in 1..Len(timers)
  /\ \A i \in 1..(j - 1) : timers[i].timeout > timers[j].timeout

Remove(seq, j) == [i \in 1..(Len(seq) - 1) |-> IF i < j THEN seq[i] ELSE seq[i + 1]]

yourTurn(player) ==
  IF player = 0 THEN "Player 1 (Green Station): Your turn"
                ELSE "Player 2 (Blue Station): Your turn"

\* The coin toss's timeout (126-134, 503-511).
tossTimeout ==
  \E j \in 1..Len(timers) :
    /\ MayRun(j)
    /\ timers[j].kind = "toss"
    /\ tossing' = FALSE
    /\ message' = yourTurn(timers[j].firstPlayer)
    /\ timers' = Remove(timers, j)
    /\ resolved' = <<>>
    /\ UNCHANGED <<canvasWidth, terrain, leftStation, rightStation, currentPlayer,
                   inputStep, playerSettings, firing, gameOver, rafQueue, round,
                   shots, edits>>

\* A tick of a coin toss's spinner interval (122-125, 499-502), which runs
\* until that toss's timeout clears it.
tossInterval ==
  /\ \E j \in 1..Len(timers) : timers[j].kind = "toss"
  /\ message' = "Coin toss"
  /\ resolved' = <<>>
  /\ UNCHANGED <<canvasWidth, terrain, leftStation, rightStation, currentPlayer,
                 inputStep, playerSettings, firing, gameOver, tossing, timers,
                 rafQueue, round, shots, edits>>

(***************************************************************************)
(* The input handlers (575-637).  They are reachable only through the      *)
(* rendered inputs, so each is guarded by the inputs being visible at its  *)
(* step; a handler reads the state of the latest render.                   *)
(***************************************************************************)
\* Faulty variants of the two checks, against which C6 and C5 are tested:
\* an angle check that refuses 90, a power check without its upper bound.
invalidAngleRefusing90(angle) == angle.nan \/ angle.v < 0 \/ angle.v >= 90 * Milli
invalidPowerNoUpperBound(power) == power.nan \/ power.v < 0

\* The checks of lines 587 and 597 on parseFloat's result.
\* A faulty variant of invalidAngle, against which C28 is tested: negative
\* angles pass.
invalidAngleNoLowerBound(angle) == angle.nan \/ angle.v > 90 * Milli

invalidAngle(angle) == angle.nan \/ angle.v < 0 \/ angle.v > 90 * Milli
invalidPower(power) == power.nan \/ power.v < 0 \/ power.v > 500 * Milli

\* The flights of the current round that are not resolved yet: the launches
\* still waiting for their timeout and the pending animation callbacks.
FlightsPending ==
  Cardinality({j \in 1..Len(timers) :
                 timers[j].kind = "launch" /\ timers[j].closure.round = round})
    + Cardinality({i \in 1..Len(rafQueue) : rafQueue[i].closure.round = round})

handleAngleSubmit ==
  /\ InputsVisible
  /\ inputStep = "angle"
  /\ LET angle == parseFloat(playerSettings[currentPlayer].angle)
     IN  IF invalidAngle(angle)
           THEN /\ message' = "Invalid angle. Please enter a value between 0 and 90."
                /\ inputStep' = inputStep
           ELSE /\ message' = (IF currentPlayer = 0 THEN "Player 1 - Firing Angle"
                                                    ELSE "Player 2 - Firing Angle")
                /\ inputStep' = "power"
  /\ resolved' = <<>>
  /\ UNCHANGED <<canvasWidth, terrain, leftStation, rightStation, currentPlayer,
                 playerSettings, firing, gameOver, tossing, timers, rafQueue, round,
                 shots, edits>>

\* getCanonTip (270-279); angleDeg is parseFloat's result.
getCanonTip(station, angleDeg) ==
  LET canonAngleDeg == IF 2 * station.x > canvasWidth * Milli
                         THEN 180 * Milli - angleDeg.v ELSE angleDeg.v
      baseX == station.x + station.width \div 2
      baseY == station.y
  IN  [x |-> baseX + CANON_LENGTH * CosDeg(canonAngleDeg),
       y |-> baseY - CANON_LENGTH * SinDeg(canonAngleDeg),
       nan |-> angleDeg.nan]

\* The timeout handlePowerSubmit sets (607-618), with what its callback
\* reads: the submitting render's state and the locals power, rawAngle,
\* startPos.
launchTimer(power, rawAngle, startPos) ==
  [kind |-> "launch", timeout |-> 500, power |-> power, rawAngle |-> rawAngle,
   startPos |-> startPos, closure |-> Closure]

handlePowerSubmit ==
  /\ InputsVisible
  /\ inputStep = "power"
  /\ LET power == parseFloat(playerSettings[currentPlayer].power)
     IN  IF invalidPower(power)
           THEN /\ message' = "Invalid power. Please enter a value between 0 and 500."
                /\ UNCHANGED <<timers, shots>>
           ELSE LET rawAngle == parseFloat(playerSettings[currentPlayer].angle)
                    firingStation == IF currentPlayer = 0 THEN leftStation
                                                          ELSE rightStation
                    startPos == getCanonTip(firingStation, rawAngle)
                IN  /\ round + Len(shots) < MaxClicks
                    /\ timers' = Append(timers, launchTimer(power, rawAngle, startPos))
                    /\ shots' = Append(shots, [player |-> currentPlayer, round |-> round,
                                               unresolved |-> FlightsPending])
                    /\ message' = message
  /\ resolved' = <<>>
  /\ UNCHANGED <<canvasWidth, terrain, leftStation, rightStation, currentPlayer,
                 inputStep, playerSettings, firing, gameOver, tossing, rafQueue,
                 round, edits>>

\* A faulty variant of handleAngleChange, against which C31 is tested: the
\* map's index test is left out, so that the edit reaches both players.
handleAngleChangeEveryPlayer ==
  /\ InputsVisible
  /\ inputStep = "angle"
  /\ edits < MaxEdits
  /\ \E newAngle \in AngleTexts :
       /\ newAngle # playerSettings[currentPlayer].angle
       /\ playerSettings' = [idx \in {0, 1} |->
                               [playerSettings[idx] EXCEPT !.angle = newAngle]]
  /\ edits' = edits + 1
  /\ resolved' = <<>>
  /\ UNCHANGED <<canvasWidth, terrain, leftStation, rightStation, currentPlayer,
                 inputStep, message, firing, gameOver, tossing, timers, rafQueue,
                 round, shots>>

handleAngleChange ==
  /\ InputsVisible
  /\ inputStep = "angle"
  /\ edits < MaxEdits
  /\ \E newAngle \in AngleTexts :
       /\ newAngle # playerSettings[currentPlayer].angle
       /\ playerSettings' = [playerSettings EXCEPT ![currentPlayer].angle = newAngle]
  /\ edits' = edits + 1
  /\ resolved' = <<>>
  /\ UNCHANGED <<canvasWidth, terrain, leftStation, rightStation, currentPlayer,
                 inputStep, message, firing, gameOver, tossing, timers, rafQueue,
                 round, shots>>

handlePowerChange ==
  /\ InputsVisible
  /\ inputStep = "power"
  /\ edits < MaxEdits
  /\ \E newPower \in PowerTexts :
       /\ newPower # playerSettings[currentPlayer].power
       /\ playerSettings' = [playerSettings EXCEPT ![currentPlayer].power = newPower]
  /\ edits' = edits + 1
  /\ resolved' = <<>>
  /\ UNCHANGED <<canvasWidth, terrain, leftStation, rightStation, currentPlayer,
                 inputStep, message, firing, gameOver, tossing, timers, rafQueue,
                 round, shots>>

(***************************************************************************)
(* The flight: simulateMissile's animate (369-406) and explosion's         *)
(* explosionAnimation (424-465) are animation-frame callbacks.  Each reads *)
(* terrain, currentPlayer and switchTurn from the closure of the render in *)
(* which handlePowerSubmit ran, and writes the state through its setters.  *)
(* A callback works on st, the state as the frame's earlier callbacks left *)
(* it: [terrain, firing, gameOver, message, timers, raf, resolved], raf    *)
(* being the callbacks requested for the next frame.                       *)
(***************************************************************************)
\* A faulty variant of getTerrainHeight, against which C18 is tested: the
\* sample to the right of x is returned, without interpolation.
getTerrainHeightRightSample(terrainArr, x) ==
  IF x < 0 \/ x >= (terrainArr.length - 1) * Milli
    THEN canvasHeight * Milli
    ELSE terrainArr.elems[Floor(x) + 1]

\* A faulty variant of getTerrainHeight, against which C24 is tested: from
\* the last sample on, the last sample is returned.
getTerrainHeightClamped(terrainArr, x) ==
  IF x < 0 \/ terrainArr.length = 0
    THEN canvasHeight * Milli
  ELSE IF x >= (terrainArr.length - 1) * Milli
    THEN terrainArr.elems[terrainArr.length - 1]
    ELSE LET x0 == Floor(x)
             y0 == terrainArr.elems[x0]
             y1 == terrainArr.elems[x0 + 1]
         IN  y0 + Mul(y1 - y0, x - x0 * Milli)

\* getTerrainHeight (245-255).
getTerrainHeight(terrainArr, x) ==
  IF x < 0 \/ x >= (terrainArr.length - 1) * Milli
    THEN canvasHeight * Milli
    ELSE LET x0 == Floor(x)
             x1 == x0 + 1
             y0 == terrainArr.elems[x0]
             y1 == terrainArr.elems[x1]
             fraction == x - x0 * Milli
         IN  y0 + Mul(y1 - y0, fraction)

\* A faulty variant of missilePos, against which C22 is tested: the factor
\* 0.5 of line 371 is left out.
missilePosFullGravity(cb) ==
  [x |-> cb.startPos.x + Mul(Mul(cb.velocity, CosDeg(cb.simAngle)), cb.t),
   y |-> cb.startPos.y - Mul(Mul(cb.velocity, SinDeg(cb.simAngle)), cb.t)
           + Mul(GRAVITY * cb.t, cb.t)]

\* Lines 370-372, at elapsed time cb.t.
missilePos(cb) ==
  [x |-> cb.startPos.x + Mul(Mul(cb.velocity, CosDeg(cb.simAngle)), cb.t),
   y |-> cb.startPos.y - Mul(Mul(cb.velocity, SinDeg(cb.simAngle)), cb.t)
           + Mul((GRAVITY \div 2) * cb.t, cb.t)]

\* A faulty variant of outOfBounds, against which C14 is tested: the right
\* and the bottom edge themselves are taken as inside.
outOfBoundsPastEdge(pos, width) ==
  pos.x < 0 \/ pos.x > width * Milli \/ pos.y > canvasHeight * Milli

\* A faulty variant of outOfBounds, against which C17 is tested: the top
\* edge bounds the flight too.
outOfBoundsWithTop(pos, width) ==
  pos.x < 0 \/ pos.x >= width * Milli \/ pos.y < 0 \/ pos.y >= canvasHeight * Milli

\* A faulty variant of outOfBounds, against which C23 is tested: the right
\* edge does not bound the flight.
outOfBoundsNoRightEdge(pos, width) ==
  pos.x < 0 \/ pos.y >= canvasHeight * Milli

\* Line 377.
outOfBounds(pos, width) ==
  pos.x < 0 \/ pos.x >= width * Milli \/ pos.y >= canvasHeight * Milli

\* A faulty variant of insideStation, against which C13 is tested: the
\* rectangle without its edges.
insideStationExclusive(pos, station) ==
  /\ pos.x > station.x
  /\ pos.x < station.x + station.width
  /\ pos.y > station.y
  /\ pos.y < station.y + station.height

\* Lines 393-398.
insideStation(pos, station) ==
  /\ pos.x >= station.x
  /\ pos.x <= station.x + station.width
  /\ pos.y >= station.y
  /\ pos.y <= station.y + station.height

\* A faulty variant of withinRadius, against which C30 is tested: the
\* distance is taken as |dx| + |dy|.
withinRadiusManhattan(dx, dy, radius) == Abs(dx) + Abs(dy) <= radius * Milli

\* Math.sqrt(dx * dx + dy * dy) <= radius, the squares taken only of
\* differences small enough to square.
withinRadius(dx, dy, radius) ==
  /\ Abs(dx) <= radius * Milli
  /\ Abs(dy) <= radius * Milli
  /\ dx * dx + dy * dy <= (radius * Milli) * (radius * Milli)

\* A faulty variant of crater, against which C19 is tested: the Math.min of
\* line 444 is left out.
craterUncapped(terrainArr, explosionPos) ==
  LET craterRadius == EXPLOSION_RADIUS * Milli
      startX == Max2(0, Floor(explosionPos.x - craterRadius))
      endX == Min2(terrainArr.length - 1, Ceil(explosionPos.x + craterRadius))
      d(x) == Abs(x * Milli - explosionPos.x)
      xs == {x \in startX..endX : d(x) < craterRadius}
  IN  AssignAll(terrainArr,
        [x \in xs |-> terrainArr.elems[x] + (craterRadius - d(x))])

\* A faulty variant of crater, against which C20 is tested: twice as wide,
\* with the same slopes.
craterWide(terrainArr, explosionPos) ==
  LET craterRadius == EXPLOSION_RADIUS * Milli
      startX == Max2(0, Floor(explosionPos.x - 2 * craterRadius))
      endX == Min2(terrainArr.length - 1, Ceil(explosionPos.x + 2 * craterRadius))
      d(x) == Abs(x * Milli - explosionPos.x)
      xs == {x \in startX..endX : d(x) < 2 * craterRadius}
  IN  AssignAll(terrainArr,
        [x \in xs |-> Min2(terrainArr.elems[x] + (2 * craterRadius - d(x)),
                           canvasHeight * Milli)])

\* Lines 436-446: the crater, carved into a copy of terrainArr.
crater(terrainArr, explosionPos) ==
  LET craterRadius == EXPLOSION_RADIUS * Milli
      startX == Max2(0, Floor(explosionPos.x - craterRadius))
      endX == Min2(terrainArr.length - 1, Ceil(explosionPos.x + craterRadius))
      d(x) == Abs(x * Milli - explosionPos.x)
      xs == {x \in startX..endX : d(x) < craterRadius}
      \* delta = craterRadius * (1 - d / craterRadius)
  IN  AssignAll(terrainArr,
        [x \in xs |-> Min2(terrainArr.elems[x] + (craterRadius - d(x)),
                           canvasHeight * Milli)])

\* A faulty variant of lethal, against which C3 is tested: direct hits only.
lethalDirectOnly(explosionPos, enemyStation, directHit) == directHit

\* Lines 449-456.
lethal(explosionPos, enemyStation, directHit) ==
  LET enemyCenterX == enemyStation.x + enemyStation.width \div 2
      enemyCenterY == enemyStation.y + enemyStation.height \div 2
      dx == explosionPos.x - enemyCenterX
      dy == explosionPos.y - enemyCenterY
  IN  directHit \/ withinRadius(dx, dy, EXPLOSION_RADIUS)

\* The timeout of lines 381-383 or 461; after records the outcome that set it.
switchTurnTimer(closure, after) ==
  [kind |-> "switchTurn", timeout |-> 1000, closure |-> closure, after |-> after]

\* Line 603, as the render that launched the flight saw it.
firingStationOf(c) == IF c.currentPlayer = 0 THEN c.leftStation ELSE c.rightStation

outcome(kind, pos, cb, gameOverSet) ==
  [kind |-> kind, pos |-> pos, enemyStation |-> cb.enemyStation,
   gameOverSet |-> gameOverSet, shooter |-> cb.closure.currentPlayer,
   round |-> cb.closure.round, firingStation |-> firingStationOf(cb.closure)]

\* One call of explosionAnimation (424-465); cb.frames counts the calls made.
explosionAnimation(cb, st) ==
  LET frames == cb.frames + 1
  IN  IF frames < maxFrames
        THEN [st EXCEPT !.raf = Append(@, [cb EXCEPT !.frames = frames])]
        ELSE LET newTerrain == crater(cb.closure.terrain, cb.explosionPos)
                 kind == IF cb.directHit THEN "DirectHit" ELSE "TerrainHit"
             IN  IF lethal(cb.explosionPos, cb.enemyStation, cb.directHit)
                   THEN [st EXCEPT
                           !.terrain = newTerrain,
                           !.message = IF cb.closure.currentPlayer = 0
                                         THEN "Player 1 wins!" ELSE "Player 2 wins!",
                           !.gameOver = TRUE,
                           !.firing = FALSE,
                           !.resolved = Append(@, outcome(kind, cb.explosionPos, cb, TRUE))]
                   ELSE [st EXCEPT
                           !.terrain = newTerrain,
                           !.message = "Missed! Switching turns...",
                           !.timers = Append(@, switchTurnTimer(cb.closure, kind)),
                           !.firing = FALSE,
                           !.resolved = Append(@, outcome(kind, cb.explosionPos, cb, FALSE))]

\* A faulty variant of explosion, against which C16 is tested: animate goes
\* on after the call, as it would without the return of line 390 or 401.
explosionWithoutReturn(explosionPos, cb, directHit, st) ==
  explosionAnimation(
    [kind |-> "explosionAnimation", explosionPos |-> explosionPos,
     enemyStation |-> cb.enemyStation, directHit |-> directHit, frames |-> 0,
     closure |-> cb.closure],
    [st EXCEPT !.raf = Append(@, [cb EXCEPT !.t = @ + DT])])

\* explosion (412-468): the first explosionAnimation call is made at once.
explosion(explosionPos, cb, directHit, st) ==
  explosionAnimation(
    [kind |-> "explosionAnimation", explosionPos |-> explosionPos,
     enemyStation |-> cb.enemyStation, directHit |-> directHit, frames |-> 0,
     closure |-> cb.closure], st)

\* One call of animate (369-406).  With a NaN start position every
\* comparison is false and the flight goes on.
animate(cb, st) ==
  LET pos == missilePos(cb)
  IN  IF cb.startPos.nan
        THEN [st EXCEPT !.raf = Append(@, [cb EXCEPT !.t = @ + DT])]
      ELSE IF outOfBounds(pos, cb.canvasWidth)
        THEN [st EXCEPT
                !.firing = FALSE,
                !.message = "Missed! Switching turns...",
                !.timers = Append(@, switchTurnTimer(cb.closure, "OutOfBounds")),
                !.resolved = Append(@, outcome("OutOfBounds", pos, cb, FALSE))]
      ELSE IF pos.y >= getTerrainHeight(cb.closure.terrain, pos.x)
        THEN explosion(pos, cb, FALSE, st)
      ELSE IF insideStation(pos, cb.enemyStation)
        THEN explosion(pos, cb, TRUE, st)
      ELSE [st EXCEPT !.raf = Append(@, [cb EXCEPT !.t = @ + DT])]

RECURSIVE runCallbacks(_, _, _)
\* The callbacks of one animation frame, run in the order they were requested.
runCallbacks(queue, i, st) ==
  IF i > Len(queue) THEN st
  ELSE runCallbacks(queue, i + 1,
                    IF queue[i].kind = "animate" THEN animate(queue[i], st)
                                                 ELSE explosionAnimation(queue[i], st))

\* A faulty variant of animationFrame, against which C21 is tested: after
\* the frame's callbacks each station is set down again on the heightmap
\* they left.
animationFrameSettling ==
  /\ rafQueue # <<>>
  /\ LET st == runCallbacks(rafQueue, 1,
                 [terrain |-> terrain, firing |-> firing, gameOver |-> gameOver,
                  message |-> message, timers |-> timers, raf |-> <<>>,
                  resolved |-> <<>>])
     IN  /\ terrain' = st.terrain
         /\ firing' = st.firing
         /\ gameOver' = st.gameOver
         /\ message' = st.message
         /\ timers' = st.timers
         /\ rafQueue' = st.raf
         /\ resolved' = st.resolved
         /\ leftStation' = Station(leftStation.x,
                                   stationY(st.terrain, leftStation.x \div Milli))
         /\ rightStation' = Station(rightStation.x,
                                    stationY(st.terrain, rightStation.x \div Milli))
  /\ UNCHANGED <<canvasWidth, currentPlayer, inputStep, playerSettings, tossing,
                 round, shots, edits>>

animationFrame ==
  /\ rafQueue # <<>>
  /\ LET st == runCallbacks(rafQueue, 1,
                 [terrain |-> terrain, firing |-> firing, gameOver |-> gameOver,
                  message |-> message, timers |-> timers, raf |-> <<>>,
                  resolved |-> <<>>])
     IN  /\ terrain' = st.terrain
         /\ firing' = st.firing
         /\ gameOver' = st.gameOver
         /\ message' = st.message
         /\ timers' = st.timers
         /\ rafQueue' = st.raf
         /\ resolved' = st.resolved
  /\ UNCHANGED <<canvasWidth, leftStation, rightStation, currentPlayer, inputStep,
                 playerSettings, tossing, round, shots, edits>>

\* A faulty variant of enemyStationOf, against which C15 is tested: the
\* right station is the target whoever fires.
enemyStationAlwaysRight(c) == c.rightStation

\* Line 616.
enemyStationOf(c) == IF c.currentPlayer = 0 THEN c.rightStation ELSE c.leftStation

\* The callback of handlePowerSubmit's timeout (607-618), simulateMissile's
\* body included (366-408): the flight's first animate is requested.
launchTimeout ==
  \E j \in 1..Len(timers) :
    /\ MayRun(j)
    /\ timers[j].kind = "launch"
    /\ LET tm == timers[j]
           c == tm.closure
           simAngle == IF c.currentPlayer = 0 THEN tm.rawAngle.v
                                              ELSE 180 * Milli - tm.rawAngle.v
           enemyStation == enemyStationOf(c)
       IN  /\ firing' = TRUE
           /\ message' = (IF c.currentPlayer = 0 THEN "Player 1 firing"
                                                 ELSE "Player 2 firing")
           /\ rafQueue' = Append(rafQueue,
                [kind |-> "animate", startPos |-> tm.startPos, simAngle |-> simAngle,
                 enemyStation |-> enemyStation, velocity |-> tm.power.v, t |-> 0,
                 canvasWidth |-> canvasWidth, closure |-> c])
    /\ timers' = Remove(timers, j)
    /\ resolved' = <<>>
    /\ UNCHANGED <<canvasWidth, terrain, leftStation, rightStation, currentPlayer,
                   inputStep, playerSettings, gameOver, tossing, round, shots, edits>>

\* switchTurn (471-480), run by the timeout set at 381-383 or 461.
switchTurnTimeout ==
  \E j \in 1..Len(timers) :
    /\ MayRun(j)
    /\ timers[j].kind = "switchTurn"
    /\ currentPlayer' = (IF currentPlayer = 0 THEN 1 ELSE 0)
    /\ inputStep' = "angle"
    /\ message' = (IF timers[j].closure.currentPlayer = 0
                     THEN "Player 2 (Blue Station): Your turn"
                     ELSE "Player 1 (Green Station): Your turn")
    /\ timers' = Remove(timers, j)
    /\ resolved' = <<>>
    /\ UNCHANGED <<canvasWidth, terrain, leftStation, rightStation, playerSettings,
                   firing, gameOver, tossing, rafQueue, round, shots, edits>>

Next ==
  \/ resetGame
  \/ tossTimeout
  \/ tossInterval
  \/ handleAngleSubmit
  \/ handlePowerSubmit
  \/ handleAngleChange
  \/ handlePowerChange
  \/ launchTimeout
  \/ animationFrame
  \/ switchTurnTimeout

Spec == Init /\ [][Next]_vars


(***************************************************************************)
(* C1: within a round the shots alternate between the players: once a      *)
(* flight has resolved, the next accepted power submission of that round   *)
(* belongs to the other player, so no player launches two projectiles in a *)
(* row.  Stated over the history of accepted submissions, for every        *)
(* submission accepted when no flight of the round was pending.            *)
(***************************************************************************)
C1_ShotsAlternate ==
  \A i \in 1..(Len(shots) - 1) :
    (shots[i + 1].round = shots[i].round /\ shots[i + 1].unresolved = 0)
      => shots[i + 1].player # shots[i].player

(***************************************************************************)
(* C2: at most one projectile is in flight at any time: between the        *)
(* acceptance of a power submission and the resolution of its flight no    *)
(* other projectile of the round is launched.                              *)
(***************************************************************************)
C2_OneInFlight == FlightsPending <= 1

(***************************************************************************)
(* C3: a resolved flight sets game-over if and only if its outcome is      *)
(* DirectHit, or TerrainHit at a Euclidean distance of at most 20 from the *)
(* centre of the target emplacement; OutOfBounds and a farther TerrainHit  *)
(* never set it.                                                           *)
(***************************************************************************)
C3_Near(o) ==
  LET dx == o.pos.x - (o.enemyStation.x + 15 * Milli)
      dy == o.pos.y - (o.enemyStation.y + (15 * Milli) \div 2)
  IN  /\ Abs(dx) <= 20 * Milli
      /\ Abs(dy) <= 20 * Milli
      /\ dx * dx + dy * dy <= (20 * Milli) * (20 * Milli)

C3_GameOverIffLethal ==
  \A i \in 1..Len(resolved) :
    LET o == resolved[i]
    IN  /\ o.gameOverSet <=>
             (o.kind = "DirectHit" \/ (o.kind = "TerrainHit" /\ C3_Near(o)))
        /\ o.gameOverSet => gameOver

\* A terrain hit within the radius has ended the round.
C3_SplashEndsRound ==
  \E i \in 1..Len(resolved) :
    /\ resolved[i].kind = "TerrainHit"
    /\ resolved[i].gameOverSet
    /\ gameOver

(***************************************************************************)
(* C4: once game-over is set it stays set until a reset, and until then    *)
(* the current player and the heightmap do not change, no submission is    *)
(* accepted, no projectile is launched or resolved and no turn switch      *)
(* occurs.                                                                 *)
(***************************************************************************)
C4_RoundOverIsFrozen ==
  [][(gameOver /\ round' = round) =>
       /\ gameOver'
       /\ currentPlayer' = currentPlayer
       /\ terrain' = terrain
       /\ inputStep' = inputStep
       /\ shots' = shots
       /\ rafQueue' = rafQueue
       /\ resolved' = <<>>]_vars

(***************************************************************************)
(* C5: an invalid submission changes nothing in the match state: when the  *)
(* submitted angle is not a number, below 0 or above 90, or the submitted  *)
(* power is not a number, below 0 or above 500, the current player, the    *)
(* input step, the heightmap, both emplacements, the firing flag and the   *)
(* game-over flag are unchanged and no projectile is launched.             *)
(***************************************************************************)
C5_OutOfRange(text, low, high) ==
  LET n == parseFloat(text)
  IN  n.nan \/ n.v < low * Milli \/ n.v > high * Milli

C5_InvalidSubmission ==
  \/ handleAngleSubmit /\ C5_OutOfRange(playerSettings[currentPlayer].angle, 0, 90)
  \/ handlePowerSubmit /\ C5_OutOfRange(playerSettings[currentPlayer].power, 0, 500)

C5_InvalidChangesNothing ==
  [][C5_InvalidSubmission =>
       UNCHANGED <<currentPlayer, inputStep, terrain, leftStation, rightStation,
                   firing, gameOver, timers, rafQueue, shots>>]_vars

\* A power above 500 has been submitted and refused.
C5_PowerRefused ==
  /\ message = "Invalid power. Please enter a value between 0 and 500."
  /\ inputStep = "power"
  /\ parseFloat(playerSettings[currentPlayer].power).v > 500 * Milli

(***************************************************************************)
(* C6: a valid angle submission (0 <= angle <= 90, bounds included) moves  *)
(* the input step from angle to power for the same player and launches     *)
(* nothing; a valid power submission (0 <= power <= 500, bounds included)  *)
(* at the power step launches exactly one projectile for the current       *)
(* player, and that projectile is aimed at the other player's emplacement. *)
(***************************************************************************)
C6_ValidAngleStep ==
  /\ handleAngleSubmit
  /\ ~C5_OutOfRange(playerSettings[currentPlayer].angle, 0, 90)

C6_ValidPowerStep ==
  /\ handlePowerSubmit
  /\ ~C5_OutOfRange(playerSettings[currentPlayer].power, 0, 500)

\* The projectile cb flies from player p's side towards the other
\* emplacement as the render c showed it.
C6_AimedAtOther(cb, p, c) ==
  /\ cb.kind = "animate"
  /\ cb.enemyStation = (IF p = 0 THEN c.rightStation ELSE c.leftStation)
  /\ cb.enemyStation # (IF p = 0 THEN c.leftStation ELSE c.rightStation)
  /\ IF p = 0 THEN cb.simAngle <= 90 * Milli ELSE cb.simAngle >= 90 * Milli

C6_ValidSubmissions ==
  [][/\ C6_ValidAngleStep =>
          /\ inputStep = "angle" /\ inputStep' = "power"
          /\ currentPlayer' = currentPlayer
          /\ UNCHANGED <<timers, rafQueue, shots, firing>>
     /\ C6_ValidPowerStep =>
          /\ Len(timers') = Len(timers) + 1
          /\ SubSeq(timers', 1, Len(timers)) = timers
          /\ timers'[Len(timers')].kind = "launch"
          /\ timers'[Len(timers')].closure.currentPlayer = currentPlayer
          /\ timers'[Len(timers')].power.v
               = parseFloat(playerSettings[currentPlayer].power).v
          /\ currentPlayer' = currentPlayer
          /\ rafQueue' = rafQueue
     /\ launchTimeout =>
          /\ Len(rafQueue') = Len(rafQueue) + 1
          /\ SubSeq(rafQueue', 1, Len(rafQueue)) = rafQueue
          /\ \E j \in 1..Len(timers) :
               /\ timers[j].kind = "launch"
               /\ timers' = Remove(timers, j)
               /\ C6_AimedAtOther(rafQueue'[Len(rafQueue')],
                                  timers[j].closure.currentPlayer, timers[j].closure)
               /\ rafQueue'[Len(rafQueue')].velocity = timers[j].power.v]_vars

\* A projectile submitted at the upper bound of the power is in flight.
C6_FullPowerInFlight ==
  \E i \in 1..Len(rafQueue) :
    /\ rafQueue[i].kind = "animate"
    /\ rafQueue[i].velocity = 500 * Milli
    /\ rafQueue[i].closure.currentPlayer = currentPlayer

(***************************************************************************)
(* C7: a reset issued while a projectile is in flight discards that        *)
(* flight: from the reset on, the old flight never changes the new match's *)
(* heightmap, current player, game-over flag or firing flag.  Stated for   *)
(* every animation frame in which only callbacks of earlier rounds run and *)
(* every timeout set by a flight of an earlier round.                      *)
(***************************************************************************)
C7_OldFlightStep ==
  \/ /\ animationFrame
     /\ \A i \in 1..Len(rafQueue) : rafQueue[i].closure.round < round
  \/ \E j \in 1..Len(timers) :
       /\ timers[j].kind \in {"launch", "switchTurn"}
       /\ timers[j].closure.round < round
       /\ timers' = Remove(timers, j)

C7_ResetDiscardsFlight ==
  [][C7_OldFlightStep => UNCHANGED <<terrain, currentPlayer, gameOver, firing>>]_vars

(***************************************************************************)
(* C8: immediately after a reset the match state is fresh: game-over and   *)
(* firing are false, the input step is angle, both players' settings are   *)
(* angle 45 and power 250, the current player is 0 or 1, the heightmap is  *)
(* newly generated with length equal to the playfield width, and both      *)
(* emplacements are positioned from that new heightmap (25 above its       *)
(* highest-valued sample under the emplacement's footprint).               *)
(***************************************************************************)
C8_PositionedFrom(station, heightmap) ==
  LET left == station.x \div Milli
      footprint == left..(left + 29)
  IN  /\ station.x = left * Milli
      /\ \A x \in footprint : station.y >= heightmap.elems[x] - 25 * Milli
      /\ \E x \in footprint : station.y = heightmap.elems[x] - 25 * Milli
      /\ station.width = 30 * Milli /\ station.height = 15 * Milli

C8_FreshAfterReset ==
  [][resetGame =>
       /\ ~gameOver' /\ ~firing'
       /\ inputStep' = "angle"
       /\ \A p \in {0, 1} : /\ playerSettings'[p].angle = <<"4", "5">>
                            /\ playerSettings'[p].power = <<"2", "5", "0">>
       /\ currentPlayer' \in {0, 1}
       /\ terrain'.length = canvasWidth
       /\ IsComplete(terrain')
       /\ \E ys \in TerrainSamples : terrain' = generateTerrain(canvasWidth, ys)
       /\ C8_PositionedFrom(leftStation', terrain')
       /\ C8_PositionedFrom(rightStation', terrain')]_vars

\* A reset has been made while a projectile fired in the round before it
\* was in flight.
C8_ResetMidFlight ==
  /\ round = 1
  /\ tossing /\ ~firing /\ ~gameOver
  /\ \E i \in 1..Len(rafQueue) : rafQueue[i].closure.round = 0

(***************************************************************************)
(* C9: crater application is atomic with respect to turn handling: when a  *)
(* flight of the round ends in a terrain or direct hit, its crater is in   *)
(* the heightmap from the step that resolves it, carved into the heightmap *)
(* as it stood, so that no later submission is accepted against a          *)
(* heightmap lacking the crater of a resolved hit.                         *)
(***************************************************************************)
C9_CraterInHeightmap ==
  [][(/\ Len(resolved') = 1
      /\ resolved'[1].kind \in {"TerrainHit", "DirectHit"}
      /\ resolved'[1].round = round)
       => terrain' = crater(terrain, resolved'[1].pos)]_vars

(***************************************************************************)
(* generateTerrain on its own: the component as constructed (the useState  *)
(* values of lines 56-94) for a window of any small width, and each        *)
(* generateTerrain of the file applied to that width, its result stored as *)
(* the heightmap.                                                          *)
(***************************************************************************)
\* The control-point elevations a call may draw, within the explored samples.
terrainInputs(elevations, counts) ==
  UNION {[1..n -> elevations \cap ElevationSamples] : n \in counts \cap (1..MaxPoints)}

InitTerrain ==
  /\ canvasWidth \in 1..MaxWidth
  /\ terrain = NewArray(0)
  /\ leftStation = Station(50 * Milli, 0)
  /\ rightStation = Station((canvasWidth - 50 - STATION_WIDTH) * Milli, 0)
  /\ currentPlayer = 0
  /\ inputStep = "angle"
  /\ playerSettings = defaultSettings
  /\ message = ""
  /\ firing = FALSE
  /\ gameOver = FALSE
  /\ tossing = FALSE
  /\ timers = <<>>
  /\ rafQueue = <<>>
  /\ round = 0
  /\ shots = <<>>
  /\ edits = 0
  /\ resolved = <<>>

\* setTerrain(generateTerrain(canvasWidth)) with the generateTerrain of 206-243.
setGeneratedTerrain ==
  /\ \E ys \in terrainInputs(ControlPointYs, getRandomInt(2, 21)) :
       terrain' = generateTerrain(canvasWidth, ys)
  /\ UNCHANGED <<canvasWidth, leftStation, rightStation, currentPlayer, inputStep,
                 playerSettings, message, firing, gameOver, tossing, timers,
                 rafQueue, round, shots, edits, resolved>>

\* setTerrain(generateTerrain(canvasWidth)) with the generateTerrain of 823-857,
\* which draws numHills in 1..20 and numHills + 1 elevations.
setGeneratedTerrain2 ==
  /\ \E ys \in terrainInputs(ControlPointYs2, {n + 1 : n \in getRandomInt(1, 20)}) :
       terrain' = generateTerrain2(canvasWidth, ys)
  /\ UNCHANGED <<canvasWidth, leftStation, rightStation, currentPlayer, inputStep,
                 playerSettings, message, firing, gameOver, tossing, timers,
                 rafQueue, round, shots, edits, resolved>>

NextTerrain == setGeneratedTerrain \/ setGeneratedTerrain2

SpecTerrain == InitTerrain /\ [][NextTerrain]_vars

(***************************************************************************)
(* C10: every generateTerrain of the source returns, for every width >= 1  *)
(* and every outcome of its random choices, an array of length width in    *)
(* which every index 0..width-1 holds a number.  The heightmap is either   *)
(* the empty array of the construction or a generateTerrain result.        *)
(***************************************************************************)
C10_GeneratedTerrainComplete ==
  terrain # NewArray(0) => (terrain.length = canvasWidth /\ IsComplete(terrain))

\* The second generateTerrain returned an array whose last entry is undefined.
C10_Undefined ==
  /\ terrain.length = canvasWidth
  /\ ~IsDefinedAt(terrain, canvasWidth - 1)


(***************************************************************************)
(* Placement on its own: the component as constructed for a window of one  *)
(* of several widths, the mount effect's startNewGame and resetGame, the   *)
(* stations' x drawn at the ends of getRandomInt's range.                  *)
(***************************************************************************)
\* Window widths explored: phones' and desktops'.
PlacementWidths == {360, 400, 459, 460, 500}
\* Control-point elevations explored: a slope and a plain.
PlacementTerrains == TerrainSamples \cup {<<400, 400>>}

\* The least and the greatest member of a non-empty set of integers.
Ends(S) == {x \in S : (\A y \in S : x <= y) \/ (\A y \in S : y <= x)}

PlacementChoices(width) ==
  [firstPlayer : getRandomInt(0, 1),
   coinTossTime : getRandomInt(2000, 5000) \cap CoinTossTimes,
   ys : {ys \in PlacementTerrains :
           /\ Len(ys) \in getRandomInt(2, 21)
           /\ \A i \in 1..Len(ys) : ys[i] \in ControlPointYs},
   leftX : Ends(leftXs(width)),
   rightX : Ends(rightXs(width))]

InitPlacement ==
  /\ canvasWidth \in PlacementWidths
  /\ terrain = NewArray(0)
  /\ leftStation = Station(50 * Milli, 0)
  /\ rightStation = Station((canvasWidth - 50 - STATION_WIDTH) * Milli, 0)
  /\ currentPlayer = 0
  /\ inputStep = "angle"
  /\ playerSettings = defaultSettings
  /\ message = ""
  /\ firing = FALSE
  /\ gameOver = FALSE
  /\ tossing = FALSE
  /\ timers = <<>>
  /\ rafQueue = <<>>
  /\ round = 0
  /\ shots = <<>>
  /\ edits = 0
  /\ resolved = <<>>

\* startNewGame (106-189), run once by the mount effect (192-194).
startNewGame ==
  /\ terrain = NewArray(0)
  /\ \E c \in PlacementChoices(canvasWidth) :
       newGame(c.firstPlayer, c.coinTossTime, c.ys, c.leftX, c.rightX)
  /\ UNCHANGED <<canvasWidth, message, rafQueue, round, shots, edits, resolved>>

\* resetGame (483-560) with the same draws.
resetGameAnywhere ==
  /\ terrain # NewArray(0)
  /\ round < MaxResets
  /\ \E c \in PlacementChoices(canvasWidth) :
       newGame(c.firstPlayer, c.coinTossTime, c.ys, c.leftX, c.rightX)
  /\ message' = "Coin toss"
  /\ round' = round + 1
  /\ UNCHANGED <<canvasWidth, rafQueue, shots, edits, resolved>>

NextPlacement == startNewGame \/ resetGameAnywhere

SpecPlacement == InitPlacement /\ [][NextPlacement]_vars

(***************************************************************************)
(* C11: for every playfield width the left emplacement's x is drawn from   *)
(* [50, floor(width/2) - 150] and the right one's from                     *)
(* [floor(width/2) + 150, width - 50 - 30], so the two x positions are at  *)
(* least 300 apart.                                                        *)
(***************************************************************************)
C11_Separation ==
  terrain # NewArray(0) =>
    /\ leftStation.x >= 50 * Milli
    /\ leftStation.x <= ((canvasWidth \div 2) - 150) * Milli
    /\ rightStation.x >= ((canvasWidth \div 2) + 150) * Milli
    /\ rightStation.x <= (canvasWidth - 50 - 30) * Milli
    /\ rightStation.x - leftStation.x >= 300 * Milli

\* Stations placed less than 300 apart.
C11_TooClose ==
  /\ terrain # NewArray(0)
  /\ rightStation.x - leftStation.x < 300 * Milli

(***************************************************************************)
(* C12: after placement each emplacement rests on or above the terrain     *)
(* across its whole footprint, on any slope: for every integer x in        *)
(* [station.x, station.x + width), station.y + height <= heightmap[x].     *)
(***************************************************************************)
C12_Rests(station) ==
  \A x \in (station.x \div Milli)..((station.x + station.width) \div Milli - 1) :
    IsDefinedAt(terrain, x) => station.y + station.height <= terrain.elems[x]

C12_RestsOnTerrain ==
  terrain # NewArray(0) => (C12_Rests(leftStation) /\ C12_Rests(rightStation))

\* A placed station whose bottom edge lies below the surface somewhere
\* under it.
C12_Embedded ==
  /\ terrain # NewArray(0)
  /\ \E x \in (leftStation.x \div Milli)..(leftStation.x \div Milli + 29) :
       /\ IsDefinedAt(terrain, x)
       /\ leftStation.y + leftStation.height > terrain.elems[x]


(***************************************************************************)
(* One tick on its own: animate (369-406) applied to a projectile at rest  *)
(* (velocity 0, elapsed time 0) at a position drawn from a grid around the *)
(* two stations and the playfield's edges, in a placed match whose current *)
(* player has fired.  The projectile then falls until its flight ends.     *)
(***************************************************************************)
TickWidths == {360, 500}

\* The placements explored: the slope, each station at the greatest x of
\* its range.
TickChoices(width) ==
  {c \in PlacementChoices(width) :
     /\ c.ys \in TerrainSamples
     /\ \A x \in leftXs(width) : x <= c.leftX
     /\ \A x \in rightXs(width) : x <= c.rightX}

\* The grid: the playfield's edges, and for each station the positions
\* just outside, on and inside its rectangle.
TickXs(width, stations) ==
  {0 - Milli, 0, (width - 5) * Milli, (width - 1) * Milli, width * Milli}
    \cup UNION {{st.x - 1, st.x, st.x + st.width \div 2, st.x + st.width,
                 st.x + st.width + 1} : st \in stations}

TickYs(stations) ==
  {0 - 100 * Milli, 0, canvasHeight * Milli - 1, canvasHeight * Milli}
    \cup UNION {{st.y - 1, st.y, st.y + st.height \div 2, st.y + st.height,
                 st.y + st.height + 1} : st \in stations}

InitTick ==
  /\ canvasWidth \in TickWidths
  /\ \E c \in TickChoices(canvasWidth) :
       LET newTerrain == newTerrainFor(canvasWidth, c.ys)
       IN  /\ terrain = newTerrain
           /\ leftStation = Station(c.leftX * Milli, stationY(newTerrain, c.leftX))
           /\ rightStation = Station(c.rightX * Milli, stationY(newTerrain, c.rightX))
           /\ currentPlayer = c.firstPlayer
  /\ inputStep = "power"
  /\ playerSettings = defaultSettings
  /\ message = (IF currentPlayer = 0 THEN "Player 1 firing" ELSE "Player 2 firing")
  /\ firing = TRUE
  /\ gameOver = FALSE
  /\ tossing = FALSE
  /\ timers = <<>>
  /\ round = 0
  /\ shots = <<[player |-> currentPlayer, round |-> 0, unresolved |-> 0]>>
  /\ edits = 0
  /\ resolved = <<>>
  /\ \E x \in TickXs(canvasWidth, {leftStation, rightStation}) :
       \E y \in TickYs({leftStation, rightStation}) :
         rafQueue = <<[kind |-> "animate",
                       startPos |-> [x |-> x, y |-> y, nan |-> FALSE],
                       simAngle |-> (IF currentPlayer = 0 THEN 45 * Milli
                                                          ELSE 135 * Milli),
                       enemyStation |-> (IF currentPlayer = 0 THEN rightStation
                                                                ELSE leftStation),
                       velocity |-> 0, t |-> 0,
                       canvasWidth |-> canvasWidth, closure |-> Closure]>>

NextTick == animationFrame \/ switchTurnTimeout

SpecTick == InitTick /\ [][NextTick]_vars


(***************************************************************************)
(* C13: whenever the projectile's position lies within the target          *)
(* emplacement's rectangle (bounds included) the outcome is DirectHit,     *)
(* also when the same tick's position is at or below the terrain surface.  *)
(* As stated, for every tick of every flight: the tick hands over to an    *)
(* explosion flagged as a direct hit.                                      *)
(***************************************************************************)
C13_InRect(pos, st) ==
  /\ st.x <= pos.x /\ pos.x <= st.x + 30 * Milli
  /\ st.y <= pos.y /\ pos.y <= st.y + 15 * Milli

\* The tick of cb ended the flight in an explosion at pos, flagged direct.
C13_Explodes(cb, pos, direct) ==
  \E j \in 1..Len(rafQueue') :
    /\ rafQueue'[j].kind = "explosionAnimation"
    /\ rafQueue'[j].explosionPos = pos
    /\ rafQueue'[j].enemyStation = cb.enemyStation
    /\ rafQueue'[j].closure = cb.closure
    /\ rafQueue'[j].directHit = direct

C13_InPlayfield(pos) ==
  0 <= pos.x /\ pos.x < canvasWidth * Milli /\ pos.y < 600 * Milli

C14_Outside(pos) ==
  pos.x < 0 \/ pos.x >= canvasWidth * Milli \/ pos.y >= 600 * Milli

C14_OutOfBoundsFirst ==
  [][(/\ animationFrame
      /\ Len(rafQueue) = 1
      /\ rafQueue[1].kind = "animate"
      /\ C14_Outside(missilePos(rafQueue[1])))
       => /\ rafQueue' = <<>>
          /\ terrain' = terrain
          /\ gameOver' = gameOver
          /\ Len(resolved') = 1
          /\ resolved'[1].kind = "OutOfBounds"
          /\ resolved'[1].pos = missilePos(rafQueue[1])
          /\ ~resolved'[1].gameOverSet]_vars

\* A flight has ended OutOfBounds at a position inside the target's
\* rectangle, or at one over the heightmap and not above its surface.
C14_OutsideAndHit ==
  \E i \in 1..Len(resolved) :
    LET o == resolved[i]
    IN  /\ o.kind = "OutOfBounds"
        /\ \/ C13_InRect(o.pos, o.enemyStation)
           \/ /\ 0 <= o.pos.x /\ o.pos.x < (canvasWidth - 1) * Milli
              /\ o.pos.y >= getTerrainHeight(terrain, o.pos.x)


(***************************************************************************)
(* C15: a round is won only against the opposing emplacement.  A           *)
(* projectile that ends inside the firer's own emplacement, or explodes    *)
(* within the explosion radius of its centre, never sets game-over; and    *)
(* whenever a flight sets game-over, it was lethal to the other player's   *)
(* emplacement and the winner declared is the player who fired it.         *)
(***************************************************************************)
C15_AtStation(pos, st) ==
  LET dx == pos.x - (st.x + 15 * Milli)
      dy == pos.y - (st.y + (15 * Milli) \div 2)
  IN  \/ C13_InRect(pos, st)
      \/ /\ Abs(dx) <= 20 * Milli
         /\ Abs(dy) <= 20 * Milli
         /\ dx * dx + dy * dy <= (20 * Milli) * (20 * Milli)

C15_Wins(p) == IF p = 0 THEN "Player 1 wins!" ELSE "Player 2 wins!"

C15_WonAgainstOpponent ==
  \A i \in 1..Len(resolved) :
    LET o == resolved[i]
    IN  /\ C15_AtStation(o.pos, o.firingStation) => ~o.gameOverSet
        /\ o.gameOverSet =>
             /\ o.enemyStation # o.firingStation
             /\ C15_AtStation(o.pos, o.enemyStation)
             /\ \E k \in 1..Len(shots) :
                  shots[k].player = o.shooter /\ shots[k].round = o.round
             /\ message = C15_Wins(o.shooter)

\* A flight has exploded at its firer's own emplacement.
C15_HitOwnStation ==
  \E i \in 1..Len(resolved) :
    /\ resolved[i].kind = "TerrainHit"
    /\ C15_AtStation(resolved[i].pos, resolved[i].firingStation)
    /\ ~gameOver


(***************************************************************************)
(* One flight from launch to its end: a placed match in which the current  *)
(* player has submitted a valid angle and a valid power (585-619), so that *)
(* the launch timeout is pending.  The browser runs a requested animation  *)
(* callback at the next repaint (lines 405, 408, 433), hence the weak      *)
(* fairness of animationFrame.                                             *)
(***************************************************************************)
FlightAngleTexts ==
  {a \in AngleTexts \cup {<<"3", "0">>, <<"7", "5">>, <<"8", "9">>} :
     ~invalidAngle(parseFloat(a))}

FlightPowerTexts ==
  {p \in PowerTexts \cup {<<"1", "0", "0">>, <<"4", "0", "0">>} :
     ~invalidPower(parseFloat(p))}

InitFlight ==
  /\ canvasWidth = InnerWidth
  /\ \E c \in TickChoices(canvasWidth) :
       LET newTerrain == newTerrainFor(canvasWidth, c.ys)
       IN  /\ terrain = newTerrain
           /\ leftStation = Station(c.leftX * Milli, stationY(newTerrain, c.leftX))
           /\ rightStation = Station(c.rightX * Milli, stationY(newTerrain, c.rightX))
           /\ currentPlayer = c.firstPlayer
  /\ inputStep = "power"
  /\ \E a \in FlightAngleTexts : \E p \in FlightPowerTexts :
       playerSettings = [defaultSettings EXCEPT ![currentPlayer] =
                           [angle |-> a, power |-> p]]
  /\ message = (IF currentPlayer = 0 THEN "Player 1 - Firing Angle"
                                      ELSE "Player 2 - Firing Angle")
  /\ firing = FALSE
  /\ gameOver = FALSE
  /\ tossing = FALSE
  /\ round = 0
  /\ LET power == parseFloat(playerSettings[currentPlayer].power)
         rawAngle == parseFloat(playerSettings[currentPlayer].angle)
     IN  timers = <<launchTimer(power, rawAngle,
                                getCanonTip(firingStationOf(Closure), rawAngle))>>
  /\ rafQueue = <<>>
  /\ shots = <<[player |-> currentPlayer, round |-> 0, unresolved |-> 0]>>
  /\ edits = 0
  /\ resolved = <<>>

NextFlight == launchTimeout \/ animationFrame \/ switchTurnTimeout

SpecFlight == InitFlight /\ [][NextFlight]_vars /\ WF_vars(animationFrame)

(***************************************************************************)
(* C16: every launched flight terminates with exactly one outcome.  Each   *)
(* tick of a flight either requests exactly one further tick or produces   *)
(* exactly one outcome (OutOfBounds, TerrainHit or DirectHit) and requests *)
(* none; a pending tick goes away in no other way; and with the animation  *)
(* frames run fairly the pending ticks eventually all have ended.          *)
(***************************************************************************)
C16_OneOutcomePerFlight ==
  [][/\ animationFrame =>
          /\ Len(rafQueue') + Len(resolved') = Len(rafQueue)
          /\ \A i \in 1..Len(resolved') :
               resolved'[i].kind \in {"OutOfBounds", "TerrainHit", "DirectHit"}
     /\ Len(rafQueue') < Len(rafQueue) => animationFrame
     /\ Len(rafQueue') > Len(rafQueue) =>
          launchTimeout /\ Len(rafQueue') = Len(rafQueue) + 1]_vars

C16_FlightTerminates ==
  /\ C16_OneOutcomePerFlight
  /\ (rafQueue # <<>>) ~> (rafQueue = <<>>)

\* A flight has just ended with its outcome and nothing of it is pending.
C16_Ended == resolved # <<>> /\ rafQueue = <<>> /\ ~firing


(***************************************************************************)
(* C17: a projectile above the top edge (y < 0) whose x is in [0, width)   *)
(* is not terminated: its tick produces no outcome and requests the next   *)
(* tick, DT later; and no flight ends above the top edge other than by     *)
(* leaving the playfield to the left or to the right.                      *)
(***************************************************************************)
C17_AboveTop(cb) ==
  /\ cb.kind = "animate"
  /\ missilePos(cb).y < 0
  /\ 0 <= missilePos(cb).x
  /\ missilePos(cb).x < canvasWidth * Milli

C17_TopEdgeIsOpen ==
  [][animationFrame =>
       /\ (Len(rafQueue) = 1 /\ C17_AboveTop(rafQueue[1])) =>
            /\ rafQueue' = <<[rafQueue[1] EXCEPT !.t = @ + DT]>>
            /\ resolved' = <<>>
            /\ UNCHANGED <<firing, message, timers, terrain, gameOver>>
       /\ \A i \in 1..Len(resolved') :
            resolved'[i].pos.y < 0 =>
              /\ resolved'[i].kind = "OutOfBounds"
              /\ \/ resolved'[i].pos.x < 0
                 \/ resolved'[i].pos.x >= canvasWidth * Milli]_vars

\* A flight is above the top edge after a tick that already was.
C17_StillFlyingAboveTop ==
  /\ Len(rafQueue) = 1
  /\ C17_AboveTop(rafQueue[1])
  /\ rafQueue[1].t >= DT
  /\ C17_AboveTop([rafQueue[1] EXCEPT !.t = @ - DT])


(***************************************************************************)
(* C18: at an integer x the terrain elevation lookup returns the stored    *)
(* sample heightmap[x].  As stated, for every x with 0 <= x < width.       *)
(***************************************************************************)
C18_LookupAt(x) == getTerrainHeight(terrain, x * Milli)

C18_EverySample ==
  \A x \in 0..(terrain.length - 1) : C18_LookupAt(x) = terrain.elems[x]

\* C18 as the code has it: the stored sample for 0 <= x < width - 1, and
\* the canvas bottom at the last sample, x = width - 1.
C18_EverySampleButLast ==
  /\ \A x \in 0..(terrain.length - 2) : C18_LookupAt(x) = terrain.elems[x]
  /\ terrain.length > 0 => C18_LookupAt(terrain.length - 1) = canvasHeight * Milli

\* A cratered heightmap whose last sample is not what the lookup returns
\* there, while the lookup inside the crater returns the stored samples.
C18_LastSampleDiffers ==
  /\ terrain.length > 0
  /\ C18_LookupAt(terrain.length - 1) # terrain.elems[terrain.length - 1]
  /\ \E i \in 1..Len(resolved) :
       /\ resolved[i].kind = "TerrainHit"
       /\ LET x == Floor(resolved[i].pos.x)
          IN  x + 1 < terrain.length /\ C18_LookupAt(x) = terrain.elems[x]


(***************************************************************************)
(* C19: when an explosion resolves at center, every integer x of the map   *)
(* with |x - center.x| < radius gets heightmap[x] = min(old + radius -     *)
(* |x - center.x|, canvas bottom): no such entry decreases, none exceeds   *)
(* the canvas bottom, and an entry exactly at the center gains exactly     *)
(* radius unless capped.                                                   *)
(***************************************************************************)
C19_Exploded ==
  /\ animationFrame
  /\ Len(rafQueue) = 1
  /\ Len(resolved') = 1
  /\ resolved'[1].kind \in {"TerrainHit", "DirectHit"}

C19_Dist(x, pos) == Abs(x * Milli - pos.x)

C19_CraterDepth ==
  [][C19_Exploded =>
       \A x \in 0..(terrain.length - 1) :
         LET d == C19_Dist(x, resolved'[1].pos)
             old == terrain.elems[x]
             new == terrain'.elems[x]
         IN  d < 20 * Milli =>
               /\ new = Min2(old + 20 * Milli - d, 600 * Milli)
               /\ new >= old
               /\ new <= 600 * Milli
               /\ (d = 0 /\ old <= 580 * Milli) => new = old + 20 * Milli]_vars

\* An explosion has resolved exactly at an integer x, whose entry is now
\* radius below the generated one; another entry of the crater was capped
\* at the canvas bottom or deepened by less than radius.
C19_CenterGainedRadius ==
  \E i \in 1..Len(resolved) : \E ys \in TerrainSamples :
    LET pos == resolved[i].pos
        x == Floor(pos.x)
        generated == newTerrainFor(canvasWidth, ys)
    IN  /\ resolved[i].kind \in {"TerrainHit", "DirectHit"}
        /\ pos.x = x * Milli
        /\ x + 1 < terrain.length
        /\ terrain.elems[x] = generated.elems[x] + 20 * Milli
        /\ terrain.elems[x + 1] = generated.elems[x + 1] + 19 * Milli

(***************************************************************************)
(* C20: a crater leaves the heightmap's length unchanged and leaves        *)
(* unchanged every entry at an integer x with |x - center.x| >= radius;    *)
(* with the center at least radius outside the map's horizontal range no   *)
(* entry changes at all.                                                   *)
(***************************************************************************)
C20_OutsideCenters ==
  {0 - 20 * Milli, 0 - 20 * Milli - 1, 0 - 45 * Milli,
   (terrain.length - 1 + 20) * Milli, (terrain.length + 20) * Milli + 500}

C20_CraterFrame ==
  /\ [][C19_Exploded =>
          /\ terrain'.length = terrain.length
          /\ DOMAIN terrain'.elems = DOMAIN terrain.elems
          /\ \A x \in 0..(terrain.length - 1) :
               C19_Dist(x, resolved'[1].pos) >= 20 * Milli =>
                 terrain'.elems[x] = terrain.elems[x]]_vars
  /\ [](\A cx \in C20_OutsideCenters : \A cy \in {0, 400 * Milli} :
          crater(terrain, [x |-> cx, y |-> cy]) = terrain)

\* An explosion has resolved less than radius from the left end of the
\* map: the crater is cut off there, and the entries from radius on are
\* the generated ones.
C20_CraterAtMapEnd ==
  \E i \in 1..Len(resolved) : \E ys \in TerrainSamples :
    LET pos == resolved[i].pos
        generated == newTerrainFor(canvasWidth, ys)
    IN  /\ resolved[i].kind \in {"TerrainHit", "DirectHit"}
        /\ pos.x < 20 * Milli
        /\ terrain.length = generated.length
        /\ terrain.elems[0] # generated.elems[0]
        /\ \A x \in 0..(terrain.length - 1) :
             C19_Dist(x, pos) >= 20 * Milli => terrain.elems[x] = generated.elems[x]


(***************************************************************************)
(* C21: between resets both emplacements keep their positions and sizes,   *)
(* whatever is submitted and however the shots end; a crater carved under  *)
(* an emplacement does not move it.                                        *)
(***************************************************************************)
C21_StationsFixed ==
  [][round' = round =>
       leftStation' = leftStation /\ rightStation' = rightStation]_vars

\* An explosion has carved the ground under an emplacement to below the
\* ground it was set down on at its placement.
C21_CraterUnderStation ==
  \E i \in 1..Len(resolved) : \E st \in {leftStation, rightStation} :
    /\ resolved[i].kind \in {"TerrainHit", "DirectHit"}
    /\ resolved[i].round = round
    /\ st = Station(st.x, stationY(newTerrainFor(canvasWidth,
                                                 CHOOSE ys \in TerrainSamples : TRUE),
                                   st.x \div Milli))
    /\ st # Station(st.x, stationY(terrain, st.x \div Milli))


(***************************************************************************)
(* C22: with power 0, at any valid angle and for either player, the        *)
(* projectile's x is the launch x on every tick, its y at elapsed time t   *)
(* is y0 + g * t^2 / 2, and the flight ends at its launch x.               *)
(***************************************************************************)
C22_PowerOf(p) == parseFloat(playerSettings[p].power)

\* The launch position of player p's shot: the cannon tip (line 604).
C22_LaunchPos(p, c) ==
  getCanonTip(firingStationOf(c), parseFloat(playerSettings[p].angle))

C22_VerticalDrop ==
  /\ \A i \in 1..Len(rafQueue) :
       LET cb == rafQueue[i]
           p == cb.closure.currentPlayer
           launch == C22_LaunchPos(p, cb.closure)
       IN  C22_PowerOf(p).v = 0 =>
             IF cb.kind = "animate"
               THEN /\ missilePos(cb).x = launch.x
                    /\ missilePos(cb).y
                         = launch.y + (GRAVITY * cb.t * cb.t) \div (2 * Milli)
               ELSE cb.explosionPos.x = launch.x
  /\ \A i \in 1..Len(resolved) :
       LET o == resolved[i]
       IN  C22_PowerOf(o.shooter).v = 0 =>
             o.pos.x = getCanonTip(o.firingStation,
                                   parseFloat(playerSettings[o.shooter].angle)).x

\* A shot with power 0 and the cannon at 45 degrees has ended, at the x of
\* the cannon tip and below it.
C22_DroppedFromTip ==
  \E i \in 1..Len(resolved) :
    LET o == resolved[i]
        tip == getCanonTip(o.firingStation,
                           parseFloat(playerSettings[o.shooter].angle))
    IN  /\ C22_PowerOf(o.shooter).v = 0
        /\ playerSettings[o.shooter].angle = <<"4", "5">>
        /\ o.pos.x = tip.x
        /\ o.pos.y > tip.y
        /\ tip.x # o.firingStation.x + o.firingStation.width \div 2


(***************************************************************************)
(* The end-to-end scenario: a playfield 800 wide and 600 high whose        *)
(* heightmap is flat at elevation 400, the emplacements at x = 100 and     *)
(* x = 700, both at y = 385, the coin toss over and the left player to     *)
(* move with angle 45 and power 300 typed in.  The handlers are those of   *)
(* the match (585-619, 360-480).                                           *)
(***************************************************************************)
InitScenario ==
  /\ canvasWidth = 800
  /\ terrain = AssignAll(NewArray(800), [x \in 0..799 |-> 400 * Milli])
  /\ leftStation = Station(100 * Milli, 385 * Milli)
  /\ rightStation = Station(700 * Milli, 385 * Milli)
  /\ currentPlayer = 0
  /\ inputStep = "angle"
  /\ playerSettings = [defaultSettings EXCEPT
                         ![0] = [angle |-> <<"4", "5">>, power |-> <<"3", "0", "0">>]]
  /\ message = yourTurn(0)
  /\ firing = FALSE
  /\ gameOver = FALSE
  /\ tossing = FALSE
  /\ timers = <<>>
  /\ rafQueue = <<>>
  /\ round = 0
  /\ shots = <<>>
  /\ edits = 0
  /\ resolved = <<>>

NextScenario ==
  \/ handleAngleSubmit
  \/ handlePowerSubmit
  \/ launchTimeout
  \/ animationFrame
  \/ switchTurnTimeout

SpecScenario == InitScenario /\ [][NextScenario]_vars

(***************************************************************************)
(* C23: in the scenario, the x of the left player's projectile strictly    *)
(* increases on every tick, and its flight reports TerrainHit, at the      *)
(* first tick where y(t) >= 400.                                           *)
(***************************************************************************)
C23_LeftFlight(cb) == cb.kind = "animate" /\ cb.closure.currentPlayer = 0

\* Every tick of the left player's flight that is followed by another is
\* followed by one further to the right.
C23_XIncreases ==
  \A i \in 1..Len(rafQueue) : \A j \in 1..Len(rafQueue') :
    (/\ C23_LeftFlight(rafQueue[i])
     /\ rafQueue'[j] = [rafQueue[i] EXCEPT !.t = @ + DT])
      => missilePos(rafQueue'[j]).x > missilePos(rafQueue[i]).x

\* Whether outcome o is that of the tick cb, the first of its flight for
\* which ended(pos) holds.
C23_FirstTickBelow(o, cb) ==
  /\ C23_LeftFlight(cb)
  /\ o.pos = missilePos(cb)
  /\ o.pos.y >= 400 * Milli
  /\ cb.t >= DT
  /\ missilePos([cb EXCEPT !.t = @ - DT]).y < 400 * Milli

C23_FirstTickOutside(o, cb) ==
  /\ C23_LeftFlight(cb)
  /\ o.pos = missilePos(cb)
  /\ o.pos.x >= canvasWidth * Milli
  /\ o.pos.y < 400 * Milli
  /\ cb.t >= DT
  /\ missilePos([cb EXCEPT !.t = @ - DT]).x < canvasWidth * Milli

C23_ScenarioTerrainHit ==
  [][animationFrame =>
       /\ C23_XIncreases
       /\ \A k \in 1..Len(resolved') :
            resolved'[k].shooter = 0 =>
              /\ resolved'[k].kind = "TerrainHit"
              /\ \E i \in 1..Len(rafQueue) :
                   C23_FirstTickBelow(resolved'[k], rafQueue[i])]_vars

\* C23 as the code has it: the projectile leaves the playfield over its
\* right edge before it comes down to elevation 400, and the flight
\* reports OutOfBounds at the first tick with x >= 800.
C23_ScenarioOutOfBounds ==
  [][animationFrame =>
       /\ C23_XIncreases
       /\ \A k \in 1..Len(resolved') :
            resolved'[k].shooter = 0 =>
              /\ resolved'[k].kind = "OutOfBounds"
              /\ \E i \in 1..Len(rafQueue) :
                   C23_FirstTickOutside(resolved'[k], rafQueue[i])]_vars

\* The left player's flight has ended, beyond the right edge and above
\* elevation 400.
C23_LeftFlightEnded ==
  \E k \in 1..Len(resolved) :
    /\ resolved[k].shooter = 0
    /\ resolved[k].kind = "OutOfBounds"
    /\ resolved[k].pos.x >= 800 * Milli
    /\ resolved[k].pos.y < 400 * Milli
    /\ playerSettings[0] = [angle |-> <<"4", "5">>, power |-> <<"3", "0", "0">>]


(***************************************************************************)
(* C24: for x < 0 or x >= width - 1 the elevation lookup returns the       *)
(* canvas bottom (600), so that no TerrainHit is registered at such an x;  *)
(* for every other x it returns the linear interpolation between           *)
(* heightmap[floor(x)] and heightmap[floor(x) + 1], which lies between     *)
(* the two.  Interpolations are compared to within one thousandth.         *)
(***************************************************************************)
C24_OutsideXs ==
  {0 - 1, 0 - Milli, 0 - 50 * Milli,
   (terrain.length - 1) * Milli, (terrain.length - 1) * Milli + 500,
   terrain.length * Milli - 1, terrain.length * Milli, (terrain.length + 50) * Milli}

C24_Fractions == {1, 250, 500, 999}

C24_Lookup ==
  /\ \A x \in C24_OutsideXs : getTerrainHeight(terrain, x) = 600 * Milli
  /\ \A x0 \in 0..(terrain.length - 2) : \A f \in C24_Fractions :
       LET h == getTerrainHeight(terrain, x0 * Milli + f)
           y0 == terrain.elems[x0]
           y1 == terrain.elems[x0 + 1]
           exact == y0 * (Milli - f) + y1 * f
       IN  /\ Min2(y0, y1) <= h /\ h <= Max2(y0, y1)
           /\ h * Milli <= exact /\ exact < (h + 1) * Milli
  /\ \A i \in 1..Len(resolved) :
       resolved[i].kind = "TerrainHit" =>
         /\ 0 <= resolved[i].pos.x
         /\ resolved[i].pos.x < (terrain.length - 1) * Milli

\* A projectile was over the last sample of the heightmap, not above it,
\* and its flight has gone on to the next tick.
C24_PastLastSample ==
  /\ Len(rafQueue) = 1
  /\ rafQueue[1].kind = "animate"
  /\ rafQueue[1].t = DT
  /\ LET before == missilePos([rafQueue[1] EXCEPT !.t = 0])
     IN  /\ before.x >= (terrain.length - 1) * Milli
         /\ before.x < terrain.length * Milli
         /\ before.y >= terrain.elems[terrain.length - 1]


(***************************************************************************)
(* C25: within a round no heightmap entry ever decreases: the crater of a  *)
(* resolved hit stays in the heightmap for all later turns, whatever the   *)
(* interleaving of submissions, timers and flights.                        *)
(***************************************************************************)
C25_CratersStay ==
  [][round' = round =>
       \A x \in 0..(terrain.length - 1) :
         terrain'.elems[x] >= terrain.elems[x]]_vars

\* Two hits of the round have resolved at different places, the second
\* launched from a render that did not have the crater of the first.
C25_StaleCrater ==
  \E i \in 1..Len(resolved) :
    /\ resolved[i].kind \in {"TerrainHit", "DirectHit"}
    /\ resolved[i].round = round
    /\ terrain = crater(newTerrainFor(canvasWidth, CHOOSE ys \in TerrainSamples : TRUE),
                        resolved[i].pos)
    /\ \E k \in 1..Len(shots) : shots[k].unresolved > 0
    /\ rafQueue = <<>>
    /\ Cardinality({j \in 1..Len(timers) : timers[j].kind = "switchTurn"}) = 1
    /\ ~gameOver


(***************************************************************************)
(* C26: in every reachable state every heightmap entry lies between 50 and *)
(* the canvas bottom (600): the control points are drawn within [50, 600], *)
(* each interpolated sample lies between its two control points, and a     *)
(* crater only raises values, capped at the canvas bottom.                 *)
(***************************************************************************)
C26_Within(arr) ==
  \A x \in 0..(arr.length - 1) :
    /\ IsDefinedAt(arr, x)
    /\ 50 * Milli <= arr.elems[x]
    /\ arr.elems[x] <= 600 * Milli

\* generateTerrain between control points at the ends of their range.
C26_ExtremeTerrains ==
  {generateTerrain(width, ys) :
     width \in {7, 60},
     ys \in UNION {[1..n -> {50, 299, 600}] : n \in 2..3}}

C26_ControlPointsWithin == \A y \in ControlPointYs : 50 <= y /\ y <= 600

C26_HeightmapWithinBounds ==
  /\ C26_Within(terrain)
  /\ C26_ControlPointsWithin
  /\ \A arr \in C26_ExtremeTerrains : C26_Within(arr)

\* A crater has been capped at the canvas bottom, beside entries it has
\* raised by less.
C26_CappedCrater ==
  \E i \in 1..Len(resolved) : \E x \in 0..(terrain.length - 2) :
    /\ resolved[i].kind \in {"TerrainHit", "DirectHit"}
    /\ C19_Dist(x, resolved[i].pos) < 20 * Milli
    /\ terrain.elems[x] = 600 * Milli
    /\ newTerrainFor(canvasWidth, CHOOSE ys \in TerrainSamples : TRUE).elems[x]
         < 600 * Milli


(***************************************************************************)
(* C27: an OutOfBounds outcome changes only whose turn it is.  The tick    *)
(* that reports it leaves the heightmap, both emplacements and the         *)
(* game-over flag unchanged, and the turn switch that follows it leaves    *)
(* the input step at angle for the other player, the one who did not fire  *)
(* the shot.                                                               *)
(***************************************************************************)
C27_OnlyOutOfBounds(os) ==
  os # <<>> /\ \A i \in 1..Len(os) : os[i].kind = "OutOfBounds"

C27_OutOfBoundsFrame ==
  [][/\ (animationFrame /\ C27_OnlyOutOfBounds(resolved')) =>
          /\ UNCHANGED <<terrain, leftStation, rightStation, gameOver,
                         currentPlayer, inputStep>>
          /\ Len(timers') = Len(timers) + Len(resolved')
     /\ \A j \in 1..Len(timers) :
          (/\ timers[j].kind = "switchTurn"
           /\ timers[j].after = "OutOfBounds"
           /\ MayRun(j)
           /\ switchTurnTimeout
           /\ timers' = Remove(timers, j)) =>
            /\ UNCHANGED <<terrain, leftStation, rightStation, gameOver>>
            /\ inputStep' = "angle"
            /\ currentPlayer' # timers[j].closure.currentPlayer]_vars



(***************************************************************************)
(* C28: every projectile ever launched uses an angle in [0, 90] and a      *)
(* power in [0, 500] that passed validation for the firing player; the     *)
(* input step is power only while the current player's stored angle is     *)
(* valid, under any sequence of edits, submissions, turn switches and      *)
(* resets.                                                                 *)
(***************************************************************************)
C28_Valid(n, high) == ~n.nan /\ 0 <= n.v /\ n.v <= high * Milli

C28_ValidatedLaunches ==
  /\ inputStep = "power" =>
       C28_Valid(parseFloat(playerSettings[currentPlayer].angle), 90)
  /\ \A j \in 1..Len(timers) :
       timers[j].kind = "launch" =>
         /\ C28_Valid(timers[j].rawAngle, 90)
         /\ C28_Valid(timers[j].power, 500)
         /\ ~timers[j].startPos.nan
  /\ \A i \in 1..Len(rafQueue) :
       LET cb == rafQueue[i]
       IN  cb.kind = "animate" =>
             /\ 0 <= cb.velocity /\ cb.velocity <= 500 * Milli
             /\ ~cb.startPos.nan
             /\ IF cb.closure.currentPlayer = 0
                  THEN 0 <= cb.simAngle /\ cb.simAngle <= 90 * Milli
                  ELSE 90 * Milli <= cb.simAngle /\ cb.simAngle <= 180 * Milli

\* A projectile is in flight at the angle 0 or 90, an end of the valid
\* range, typed in and submitted.
C28_EditedAngleInFlight ==
  \E i \in 1..Len(rafQueue) :
    /\ rafQueue[i].kind = "animate"
    /\ rafQueue[i].simAngle \in {0, 90 * Milli, 180 * Milli}
    /\ rafQueue[i].t > 0
    /\ edits > 0


(***************************************************************************)
(* A match in a narrow window, 150 wide: the placement of lines 141-153    *)
(* with the x of each station at an end of what getRandomInt can return    *)
(* within the heightmap, the coin toss over, and the handlers of the       *)
(* match from there.                                                       *)
(***************************************************************************)
NarrowChoices(width) ==
  {c \in [firstPlayer : getRandomInt(0, 1),
          ys : TerrainSamples,
          leftX : leftXs(width),
          rightX : rightXs(width)] :
     /\ \A x \in leftXs(width) : x <= c.leftX
     /\ \/ \A x \in rightXs(width) : c.rightX <= x
        \/ c.rightX = width - STATION_WIDTH}

InitNarrow ==
  /\ canvasWidth = 150
  /\ \E c \in NarrowChoices(canvasWidth) :
       LET newTerrain == newTerrainFor(canvasWidth, c.ys)
       IN  /\ terrain = newTerrain
           /\ leftStation = Station(c.leftX * Milli, stationY(newTerrain, c.leftX))
           /\ rightStation = Station(c.rightX * Milli, stationY(newTerrain, c.rightX))
           /\ currentPlayer = c.firstPlayer
  /\ inputStep = "angle"
  /\ playerSettings = defaultSettings
  /\ message = yourTurn(currentPlayer)
  /\ firing = FALSE
  /\ gameOver = FALSE
  /\ tossing = FALSE
  /\ timers = <<>>
  /\ rafQueue = <<>>
  /\ round = 0
  /\ shots = <<>>
  /\ edits = 0
  /\ resolved = <<>>

SpecNarrow == InitNarrow /\ [][NextScenario]_vars

(***************************************************************************)
(* C29: player 0's emplacement always lies left of the playfield midpoint  *)
(* and player 1's right of it, so that the mirroring of the cannon tip     *)
(* (station.x > width / 2) agrees with the mirroring of the trajectory     *)
(* (the player index): no projectile of player 0 ever moves left and none  *)
(* of player 1 ever moves right.                                           *)
(***************************************************************************)
C29_RightOfMidpoint(station) == 2 * station.x > canvasWidth * Milli

C29_StationsInTheirHalves ==
  /\ ~C29_RightOfMidpoint(leftStation)
  /\ C29_RightOfMidpoint(rightStation)
  /\ \A j \in 1..Len(timers) :
       timers[j].kind = "launch" =>
         LET c == timers[j].closure
             base == firingStationOf(c).x + firingStationOf(c).width \div 2
         IN  /\ C29_RightOfMidpoint(firingStationOf(c)) <=> c.currentPlayer = 1
             /\ IF c.currentPlayer = 0 THEN timers[j].startPos.x >= base
                                       ELSE timers[j].startPos.x <= base
  /\ \A i \in 1..Len(rafQueue) :
       LET cb == rafQueue[i]
       IN  cb.kind = "animate" =>
             IF cb.closure.currentPlayer = 0
               THEN missilePos(cb).x >= cb.startPos.x
               ELSE missilePos(cb).x <= cb.startPos.x

\* Player 1's projectile flies to the left, launched from a cannon tip
\* that is to the right of the emplacement's middle.
C29_CannonPointsAway ==
  \E i \in 1..Len(rafQueue) :
    LET cb == rafQueue[i]
        own == firingStationOf(cb.closure)
    IN  /\ cb.kind = "animate"
        /\ cb.closure.currentPlayer = 1
        /\ cb.startPos.x > own.x + own.width \div 2
        /\ missilePos(cb).x < cb.startPos.x


(***************************************************************************)
(* C30: every point of the target rectangle (bounds included, 30 wide and  *)
(* 15 high) is within the explosion radius (20) of the rectangle's center, *)
(* so that an impact anywhere inside the target is lethal, whether the     *)
(* tick classified it as DirectHit or as TerrainHit.                       *)
(***************************************************************************)
C30_XOffsets == {0, 1, 7 * Milli, 15 * Milli, 23 * Milli, 30 * Milli - 1, 30 * Milli}
C30_YOffsets == {0, 1, 4 * Milli, 7 * Milli + 500, 11 * Milli, 15 * Milli - 1, 15 * Milli}

C30_RectangleWithinRadius ==
  /\ \A st \in {leftStation, rightStation} :
       \A ox \in C30_XOffsets : \A oy \in C30_YOffsets :
         LET pos == [x |-> st.x + ox, y |-> st.y + oy]
         IN  /\ insideStation(pos, st)
             /\ withinRadius(pos.x - (st.x + st.width \div 2),
                             pos.y - (st.y + st.height \div 2), EXPLOSION_RADIUS)
             /\ lethal(pos, st, FALSE)
  /\ \A i \in 1..Len(resolved) :
       LET o == resolved[i]
       IN  (/\ o.kind \in {"TerrainHit", "DirectHit"}
            /\ insideStation(o.pos, o.enemyStation))
             => o.gameOverSet /\ gameOver

\* A TerrainHit on the bottom edge of the target's rectangle, at one of
\* its corners, has ended the round.
C30_LethalAtCorner ==
  \E i \in 1..Len(resolved) :
    LET o == resolved[i]
        st == o.enemyStation
    IN  /\ o.kind = "TerrainHit"
        /\ o.pos.y = st.y + st.height
        /\ o.pos.x \in {st.x, st.x + st.width}
        /\ o.gameOverSet
        /\ gameOver


(***************************************************************************)
(* C31: editing the angle or the power field changes only the current      *)
(* player's stored setting and leaves the other player's settings alone;   *)
(* each player's settings persist across turns and change only by that     *)
(* player's own edits or by a reset.                                       *)
(***************************************************************************)
\* The step is an edit of player p's settings: p is the current player and
\* stays it, and one of p's two texts changes.
C31_OwnEdit(p) ==
  /\ p = currentPlayer
  /\ currentPlayer' = currentPlayer
  /\ edits' = edits + 1
  /\ \/ playerSettings'[p].power = playerSettings[p].power
     \/ playerSettings'[p].angle = playerSettings[p].angle

\* The step is a reset: both players are back to the default texts.
C31_Reset == round' = round + 1 /\ playerSettings' = defaultSettings

C31_SettingsChangeByOwnEditOrReset ==
  [][/\ \A p \in {0, 1} :
          playerSettings'[p] # playerSettings[p] => C31_OwnEdit(p) \/ C31_Reset
     /\ (currentPlayer' # currentPlayer /\ round' = round)
          => playerSettings' = playerSettings]_vars

\* The turn has passed to the other player after an edit: the player who
\* is waiting keeps the edited text, and the current player's texts are
\* still the defaults.
C31_EditKeptAcrossTurn ==
  /\ edits > 0
  /\ \E i \in 1..Len(shots) :
       shots[i].player # currentPlayer /\ shots[i].round = round
  /\ playerSettings[1 - currentPlayer] # defaultSettings[1 - currentPlayer]
  /\ playerSettings[currentPlayer] = defaultSettings[currentPlayer]


(***************************************************************************)
(* C32: no angle or power submission is accepted while a coin toss is in   *)
(* progress: the inputs stay hidden (tossing = TRUE) until the coin toss   *)
(* started by the most recent new game or reset has finished, also when    *)
(* New Game is pressed again during an earlier toss.                       *)
(***************************************************************************)
\* A coin toss is in progress while its timeout is pending.  The explored
\* tosses last equally long and so end in the order they were started: the
\* most recent toss is in progress exactly when some toss is.
C32_TossInProgress == \E j \in 1..Len(timers) : timers[j].kind = "toss"

C32_HiddenDuringToss == C32_TossInProgress => tossing /\ ~InputsVisible

\* A power submission of the current round was accepted, and the coin toss
\* of that round's reset has still not finished.
C32_ShotDuringToss ==
  /\ C32_TossInProgress
  /\ round > 0
  /\ \E i \in 1..Len(shots) : shots[i].round = round

=============================================================================
